---------------------------- MODULE Spec2Model ----------------------------
(***************************************************************************)
(* A model of cats.py (CatRacer): the scorer (accuracy), the autocorrector *)
(* and its edit-distance engine (feline_fixes, minimum_mewtations,         *)
(* final_diff), the progress report and the multiplayer Match record.      *)
(*                                                                         *)
(* A word is a sequence of one-character strings, a text likewise (with    *)
(* " " as whitespace).  Python lists live in a heap of list objects so     *)
(* that aliasing and mutation are visible.  Every function of cats.py is   *)
(* an operator computed the way the code computes it, and every call is an *)
(* action that records the call's outcome.                                 *)
(***************************************************************************)
EXTENDS Integers, Sequences, FiniteSets, TLC

VARIABLES
    pc,             \* "ready" before a call, then "returned" or "raised"
    start,          \* edit-distance engine: first word (typed / start)
    goal,           \* edit-distance engine: second word (source / goal)
    limit,          \* edit-distance engine and autocorrect: the limit argument
    diffs,          \* edit-distance engine: results so far, by function name
    typed_word,     \* autocorrect: the word to correct
    word_list,      \* autocorrect: the candidate words
    diff_function,  \* autocorrect: the name of the pluggable diff function
    typed_text,     \* accuracy: the typed string
    source_text,    \* accuracy: the source string
    typed_words,    \* report_progress: the words typed so far
    prompt,         \* report_progress: the words of the prompt
    user_id,        \* report_progress: the id argument
    uploads,        \* report_progress: the reports the upload callback received
    heap,           \* multiplayer: the list objects, by address
    in_words,       \* multiplayer: address of the caller's words list
    in_times,       \* multiplayer: address of the caller's list of time lists
    match,          \* multiplayer: the Match dictionary, [words, times] addresses
    call,           \* multiplayer: the last call, <<name, arguments...>>
    ret             \* the value the last call returned

diffVars  == <<start, goal, diffs>>
autoVars  == <<typed_word, word_list, diff_function>>
accVars   == <<typed_text, source_text>>
progVars  == <<typed_words, prompt, user_id, uploads>>
matchVars == <<heap, in_words, in_times, match, call>>
vars == <<pc, limit, ret, diffVars, autoVars, accVars, progVars, matchVars>>

-----------------------------------------------------------------------------
(* Bounds of the model *)

\* longest word of the edit-distance engine's exhaustive inputs
MaxLen == 3
\* largest limit argument; the smallest is -1
MaxLimit == 4
\* longest word_list of autocorrect
MaxList == 2
\* longest typed string of accuracy, in characters
MaxTyped == 5
\* longest source string of accuracy, in characters
MaxSource == 3
\* longest word list (typed, prompt) of report_progress
MaxWords == 3
\* most words of a Match
MaxMatchWords == 2
\* most players of a Match
MaxPlayers == 2

(* Program constants *)

\* FINAL_DIFF_LIMIT = 6
FINAL_DIFF_LIMIT == 6

-----------------------------------------------------------------------------
(* Values *)

Alphabet == {"a", "b"}

\* all sequences over S of length at most n
SeqsUpTo(S, n) == UNION {[1..k -> S] : k \in 0..n}

Words == SeqsUpTo(Alphabet, MaxLen)

Limits == (-1)..MaxLimit

Max2(a, b) == IF a >= b THEN a ELSE b
Min2(a, b) == IF a <= b THEN a ELSE b
\* Python's min(a, b, c) on integers
Min3(a, b, c) == Min2(a, Min2(b, c))
\* Python's max(a, b, c) on integers
Max3(a, b, c) == Max2(a, Max2(b, c))

\* the value of a call that returned nothing yet
NoValue == [kind |-> "none"]

-----------------------------------------------------------------------------
(* Phase 2: the edit-distance engine *)

\* feline_fixes with the leftover of TYPED forgotten in the empty-word base case
RECURSIVE feline_fixes_source_only(_, _, _)
feline_fixes_source_only(typed, source, lim) ==
    IF lim < 0 THEN 0
    ELSE IF Len(typed) = 0 \/ Len(source) = 0 THEN Len(source)
    ELSE IF Head(typed) = Head(source)
         THEN feline_fixes_source_only(Tail(typed), Tail(source), lim)
    ELSE 1 + feline_fixes_source_only(Tail(typed), Tail(source), lim - 1)

\* feline_fixes pruning one step early (limit <= 0 instead of limit < 0)
RECURSIVE feline_fixes_early(_, _, _)
feline_fixes_early(typed, source, lim) ==
    IF lim <= 0 THEN 0
    ELSE IF Len(typed) = 0 \/ Len(source) = 0 THEN Len(source) + Len(typed)
    ELSE IF Head(typed) = Head(source)
         THEN feline_fixes_early(Tail(typed), Tail(source), lim)
    ELSE 1 + feline_fixes_early(Tail(typed), Tail(source), lim - 1)

RECURSIVE feline_fixes(_, _, _)
feline_fixes(typed, source, lim) ==
    IF lim < 0 THEN 0
    ELSE IF Len(typed) = 0 \/ Len(source) = 0 THEN Len(source) + Len(typed)
    ELSE IF Head(typed) = Head(source)
         THEN feline_fixes(Tail(typed), Tail(source), lim)
    ELSE 1 + feline_fixes(Tail(typed), Tail(source), lim - 1)

\* minimum_mewtations pruning one step early (limit <= 0 instead of limit < 0)
RECURSIVE minimum_mewtations_early(_, _, _)
minimum_mewtations_early(s, g, lim) ==
    IF lim <= 0 THEN 0
    ELSE IF Len(g) = 0 \/ Len(s) = 0 THEN Len(g) + Len(s)
    ELSE IF Head(g) = Head(s)
         THEN minimum_mewtations_early(Tail(s), Tail(g), lim)
    ELSE LET add        == minimum_mewtations_early(s, Tail(g), lim - 1)
             remove     == minimum_mewtations_early(Tail(s), g, lim - 1)
             substitute == minimum_mewtations_early(Tail(s), Tail(g), lim - 1)
         IN  1 + Min3(add, remove, substitute)

RECURSIVE minimum_mewtations(_, _, _)
minimum_mewtations(s, g, lim) ==
    IF lim < 0 THEN 0
    ELSE IF Len(g) = 0 \/ Len(s) = 0 THEN Len(g) + Len(s)
    ELSE IF Head(g) = Head(s)
         THEN minimum_mewtations(Tail(s), Tail(g), lim)
    ELSE LET add        == minimum_mewtations(s, Tail(g), lim - 1)
             remove     == minimum_mewtations(Tail(s), g, lim - 1)
             substitute == minimum_mewtations(Tail(s), Tail(g), lim - 1)
         IN  1 + Min3(add, remove, substitute)

\* the limit of final_diff with the word lengths left out of the max
FinalDiffLimit_floor_only(typed, source) == FINAL_DIFF_LIMIT

\* the limit final_diff hands to minimum_mewtations
FinalDiffLimit(typed, source) == Max3(Len(typed), Len(source), FINAL_DIFF_LIMIT)

final_diff(typed, source, lim) ==
    minimum_mewtations(typed, source, FinalDiffLimit(typed, source))


-----------------------------------------------------------------------------
(* Python numbers that may be math.inf: [inf |-> TRUE] is math.inf *)

Inf == [inf |-> TRUE, n |-> 0]
Fin(k) == [inf |-> FALSE, n |-> k]
\* a < b
NumLess(a, b) == ~a.inf /\ (b.inf \/ a.n < b.n)

(* Python floats that are quotients of integers, kept exact: num / den *)

Div(a, b) == [num |-> a, den |-> b]
\* 1 - q
OneMinus(q) == [num |-> q.den - q.num, den |-> q.den]
\* q * 100
Times100(q) == [num |-> q.num * 100, den |-> q.den]
RatEq(p, q) == p.num * q.den = q.num * p.den
RatLeq(p, q) == p.num * q.den <= q.num * p.den

-----------------------------------------------------------------------------
(* Phase 2: autocorrect *)

\* ten_diff of the doctest: lambda w1, w2, limit: 10
ten_diff(w1, w2, lim) == 10

DiffFunctions == {"feline_fixes", "minimum_mewtations", "final_diff", "ten_diff"}

\* diff_function(typed_word, word, limit), by the name of the function passed
ApplyDiff(name, w1, w2, lim) ==
    CASE name = "feline_fixes"       -> feline_fixes(w1, w2, lim)
      [] name = "minimum_mewtations" -> minimum_mewtations(w1, w2, lim)
      [] name = "final_diff"         -> final_diff(w1, w2, lim)
      [] name = "ten_diff"           -> ten_diff(w1, w2, lim)

\* the loop of compute_smallest_diff_and_return_word with <= for <: last tie wins
RECURSIVE SmallestDiffLoop_last_wins(_, _, _, _, _, _)
SmallestDiffLoop_last_wins(diff, lim, typed, rest, smallest_diff, autocorrect_word) ==
    IF rest = <<>> THEN [word |-> autocorrect_word, diff |-> smallest_diff]
    ELSE LET word == Head(rest)
             current_diff == Fin(ApplyDiff(diff, typed, word, lim))
         IN  IF ~NumLess(smallest_diff, current_diff)
             THEN SmallestDiffLoop_last_wins(diff, lim, typed, Tail(rest), current_diff, word)
             ELSE SmallestDiffLoop_last_wins(diff, lim, typed, Tail(rest),
                                             smallest_diff, autocorrect_word)

\* the loop of compute_smallest_diff_and_return_word over the rest of word_list
RECURSIVE SmallestDiffLoop(_, _, _, _, _, _)
SmallestDiffLoop(diff, lim, typed, rest, smallest_diff, autocorrect_word) ==
    IF rest = <<>> THEN [word |-> autocorrect_word, diff |-> smallest_diff]
    ELSE LET word == Head(rest)
             current_diff == Fin(ApplyDiff(diff, typed, word, lim))
         IN  IF NumLess(current_diff, smallest_diff)
             THEN SmallestDiffLoop(diff, lim, typed, Tail(rest), current_diff, word)
             ELSE SmallestDiffLoop(diff, lim, typed, Tail(rest),
                                   smallest_diff, autocorrect_word)

compute_smallest_diff_and_return_word(diff, lim, typed, words) ==
    SmallestDiffLoop(diff, lim, typed, words, Inf, <<>>)

autocorrect(typed, words, diff, lim) ==
    IF \E i \in 1..Len(words) : words[i] = typed THEN typed
    ELSE LET best == compute_smallest_diff_and_return_word(diff, lim, typed, words)
         IN  IF NumLess(Fin(lim), best.diff) THEN typed ELSE best.word

-----------------------------------------------------------------------------
(* Phase 1: accuracy *)

Whitespace == {" "}

\* str.split(): the maximal runs of non-whitespace characters, in order
RECURSIVE SplitLoop(_, _, _)
SplitLoop(text, word, acc) ==
    IF text = <<>> THEN (IF word = <<>> THEN acc ELSE Append(acc, word))
    ELSE IF Head(text) \in Whitespace
         THEN SplitLoop(Tail(text), <<>>, IF word = <<>> THEN acc ELSE Append(acc, word))
    ELSE SplitLoop(Tail(text), Append(word, Head(text)), acc)

split(text) == SplitLoop(text, <<>>, <<>>)

\* the loop of compute_mistyped_words from index i (1-based) on
RECURSIVE MistypedLoop(_, _, _, _)
MistypedLoop(typed, source, i, cnt) ==
    IF i > Min2(Len(typed), Len(source)) THEN cnt
    ELSE MistypedLoop(typed, source, i + 1,
                      IF typed[i] # source[i] THEN cnt + 1 ELSE cnt)

compute_mistyped_words(typed, source) == MistypedLoop(typed, source, 1, 0)

\* compute_extra_typed_words counting the missing words too
compute_extra_typed_words_abs(typed_len, source_len) ==
    IF typed_len > source_len THEN typed_len - source_len ELSE source_len - typed_len

compute_extra_typed_words(typed_len, source_len) ==
    IF typed_len > source_len THEN typed_len - source_len ELSE 0

compute_accuracy(mistyped_words_cnt, extra_typed_words_cnt, typed_words_len) ==
    LET correctly_typed_words ==
            Div(mistyped_words_cnt + extra_typed_words_cnt, typed_words_len)
    IN  Times100(OneMinus(correctly_typed_words))

accuracy(typed, source) ==
    LET typed_ws   == split(typed)
        source_ws  == split(source)
        source_len == Len(source_ws)
        typed_len  == Len(typed_ws)
    IN  IF typed_len = 0 /\ source_len = 0 THEN Div(100, 1)
        ELSE IF typed_len = 0 \/ source_len = 0 THEN Div(0, 1)
        ELSE compute_accuracy(compute_mistyped_words(typed_ws, source_ws),
                              compute_extra_typed_words(typed_len, source_len),
                              typed_len)

-----------------------------------------------------------------------------
(* Phase 3: report_progress *)

\* the loop of compute_correct_words_till_mistype from index i (1-based) on;
\* prompt[i] past the end of prompt raises IndexError
RECURSIVE TillMistypeLoop(_, _, _, _)
TillMistypeLoop(prompt_ws, typed, i, cnt) ==
    IF i > Len(typed) THEN [raised |-> FALSE, count |-> cnt]
    ELSE IF i > Len(prompt_ws) THEN [raised |-> TRUE, count |-> cnt]
    ELSE IF typed[i] = prompt_ws[i]
         THEN TillMistypeLoop(prompt_ws, typed, i + 1, cnt + 1)
    ELSE [raised |-> FALSE, count |-> cnt]

compute_correct_words_till_mistype(prompt_ws, typed) ==
    TillMistypeLoop(prompt_ws, typed, 1, 0)

get_progress_ratio(correctly_typed_till_mistype, prompt_ws) ==
    Div(correctly_typed_till_mistype, Len(prompt_ws))

\* the ratio, or raised when the count raised
compute_progress_ratio(prompt_ws, typed) ==
    LET c == compute_correct_words_till_mistype(prompt_ws, typed)
    IN  IF c.raised THEN [raised |-> TRUE, ratio |-> Div(0, 1)]
        ELSE [raised |-> FALSE, ratio |-> get_progress_ratio(c.count, prompt_ws)]

-----------------------------------------------------------------------------
(* Phase 3: the Match record.  A list is an object of the heap h, named by its *)
(* address (its index in h); a Match m holds the addresses of its words list   *)
(* and of its list of time lists.                                              *)

Raise(exc) == [raised |-> TRUE, exc |-> exc]
Return(v) == [raised |-> FALSE, val |-> v]

\* list[i] of Python: the 1-based position of index i, or 0 for IndexError
PyIndex(list, i) ==
    IF 0 <= i /\ i < Len(list) THEN i + 1
    ELSE IF i < 0 /\ -i <= Len(list) THEN Len(list) + i + 1
    ELSE 0

\* the asserts of match(words, times), for a heap whose words are strings and
\* whose times are lists of numbers: one time per word
MatchAccepts(h, words, times) ==
    \A k \in 1..Len(h[times]) : Len(h[h[times][k]]) = Len(h[words])

\* match(words, times): the dictionary keeps the caller's list objects
MakeMatch(words, times) == [kind |-> "match", words |-> words, times |-> times]

get_all_words(h, m) == m.words

get_all_times(h, m) == m.times

get_word(h, m, word_index) ==
    IF ~(0 <= word_index /\ word_index < Len(h[m.words]))
    THEN Raise("AssertionError")
    ELSE Return(h[m.words][word_index + 1])

time(h, m, player_num, word_index) ==
    IF ~(word_index < Len(h[m.words])) THEN Raise("AssertionError")
    ELSE IF ~(player_num < Len(h[m.times])) THEN Raise("AssertionError")
    ELSE LET p == PyIndex(h[m.times], player_num)
         IN  IF p = 0 THEN Raise("IndexError")
             ELSE LET player_times == h[h[m.times][p]]
                      w == PyIndex(player_times, word_index)
                  IN  IF w = 0 THEN Raise("IndexError")
                      ELSE Return(player_times[w])

\* [[] for _ in range(player_count)]: player_count new lists and the new list
\* that holds them
NewResultLists(h, player_count) ==
    [heap |-> h \o [k \in 1..player_count |-> <<>>]
                \o << [k \in 1..player_count |-> Len(h) + k] >>,
     ref  |-> Len(h) + player_count + 1]

\* the player loop of compute_fastest_words_for_each_player, from player_index on
RECURSIVE FastestPlayerLoop(_, _, _, _, _, _, _, _)
FastestPlayerLoop(h, m, player_count, word_index, player_index, min_time, player, word) ==
    IF player_index >= player_count THEN [player |-> player, word |-> word]
    ELSE LET current_word_time == time(h, m, player_index, word_index).val
         IN  IF NumLess(current_word_time, min_time)
             THEN FastestPlayerLoop(h, m, player_count, word_index, player_index + 1,
                                    current_word_time, player_index,
                                    get_word(h, m, word_index).val)
             ELSE FastestPlayerLoop(h, m, player_count, word_index, player_index + 1,
                                    min_time, player, word)

\* the heap after the call, or IndexError from fastest_words_per_player[player]
compute_fastest_words_for_each_player(h, fastest, m, player_count, word_index) ==
    LET best == FastestPlayerLoop(h, m, player_count, word_index, 0, Inf, 0, <<>>)
        at   == PyIndex(h[fastest], best.player)
    IN  IF at = 0 THEN [raised |-> TRUE, exc |-> "IndexError", heap |-> h]
        ELSE [raised |-> FALSE,
              heap |-> [h EXCEPT ![h[fastest][at]] = Append(@, best.word)]]

\* the word loop of fastest_words, from word_index on
RECURSIVE FastestWordLoop(_, _, _, _, _, _)
FastestWordLoop(h, fastest, m, player_count, word_count, word_index) ==
    IF word_index >= word_count
    THEN [raised |-> FALSE, heap |-> h, ref |-> fastest]
    ELSE LET r == compute_fastest_words_for_each_player(h, fastest, m,
                                                        player_count, word_index)
         IN  IF r.raised THEN r
             ELSE FastestWordLoop(r.heap, fastest, m, player_count, word_count,
                                  word_index + 1)

\* fastest_words with the match's own list of time lists taken as the result
fastest_words_aliasing(h, m) ==
    FastestWordLoop(h, get_all_times(h, m), m,
                    Len(h[get_all_times(h, m)]), Len(h[get_all_words(h, m)]), 0)

fastest_words(h, m) ==
    LET player_count == Len(h[get_all_times(h, m)])
        word_count   == Len(h[get_all_words(h, m)])
        new          == NewResultLists(h, player_count)
    IN  FastestWordLoop(new.heap, new.ref, m, player_count, word_count, 0)

-----------------------------------------------------------------------------
(* The edit distance of the glossary: the minimum number of single-character *)
(* insertions, deletions and substitutions, by the Wagner-Fischer table,     *)
(* one row at a time.  It is the yardstick of the claims, not a part of the  *)
(* program.                                                                  *)

RECURSIVE BuildRow(_, _, _, _)
BuildRow(prev, c, g, acc) ==
    IF Len(acc) = Len(g) + 1 THEN acc
    ELSE LET j == Len(acc)
         IN  BuildRow(prev, c, g,
                 Append(acc, Min3(prev[j + 1] + 1,
                                  acc[j] + 1,
                                  prev[j] + (IF c = g[j] THEN 0 ELSE 1))))

RECURSIVE LevRows(_, _, _)
LevRows(s, g, prev) ==
    IF s = <<>> THEN prev[Len(g) + 1]
    ELSE LevRows(Tail(s), g, BuildRow(prev, Head(s), g, <<prev[1] + 1>>))

EditDistance(s, g) == LevRows(s, g, [j \in 1..(Len(g) + 1) |-> j - 1])

\* the positions, within the shorter word, at which two words differ
Mismatches(s, g) == {i \in 1..Min2(Len(s), Len(g)) : s[i] # g[i]}

AbsDiff(a, b) == IF a >= b THEN a - b ELSE b - a

-----------------------------------------------------------------------------
(* Idle values of the components a specification does not exercise *)

IdleDiff  == start = <<>> /\ goal = <<>> /\ diffs = <<>>
IdleAuto  == typed_word = <<>> /\ word_list = <<>> /\ diff_function = "none"
IdleAcc   == typed_text = <<>> /\ source_text = <<>>
IdleProg  == typed_words = <<>> /\ prompt = <<>> /\ user_id = 0 /\ uploads = <<>>
IdleMatch == heap = <<>> /\ in_words = 0 /\ in_times = 0 /\ match = NoValue
             /\ call = <<>>

-----------------------------------------------------------------------------
(* Specification SpecDiff: the three diff functions applied to one pair of *)
(* words and one limit.                                                    *)

\* a word of FINAL_DIFF_LIMIT + 2 letters, all c
LongWord(c) == [i \in 1..(FINAL_DIFF_LIMIT + 2) |-> c]

\* pairs of words longer than FINAL_DIFF_LIMIT, next to the exhaustive short ones
LongPairs == {<<LongWord("a"), LongWord("b")>>, <<LongWord("b"), <<"a">>>>}

WordPairs == (Words \X Words) \cup LongPairs

\* f with name k bound to value v
Put(f, k, v) == [n \in DOMAIN f \cup {k} |-> IF n = k THEN v ELSE f[n]]

Computed(name) == name \in DOMAIN diffs

InitDiff ==
    /\ pc = "ready"
    /\ \E p \in WordPairs : start = p[1] /\ goal = p[2]
    /\ limit \in Limits
    /\ diffs = <<>>
    /\ ret = NoValue
    /\ IdleAuto /\ IdleAcc /\ IdleProg /\ IdleMatch

CallFelineFixes ==
    /\ pc = "ready"
    /\ ~Computed("feline_fixes")
    /\ diffs' = Put(diffs, "feline_fixes", feline_fixes(start, goal, limit))
    /\ UNCHANGED <<pc, limit, ret, start, goal, autoVars, accVars, progVars, matchVars>>

CallMinimumMewtations ==
    /\ pc = "ready"
    /\ ~Computed("minimum_mewtations")
    /\ diffs' = Put(diffs, "minimum_mewtations", minimum_mewtations(start, goal, limit))
    /\ UNCHANGED <<pc, limit, ret, start, goal, autoVars, accVars, progVars, matchVars>>

CallFinalDiff ==
    /\ pc = "ready"
    /\ ~Computed("final_diff")
    /\ diffs' = Put(diffs, "final_diff", final_diff(start, goal, limit))
    /\ UNCHANGED <<pc, limit, ret, start, goal, autoVars, accVars, progVars, matchVars>>

NextDiff == CallFelineFixes \/ CallMinimumMewtations \/ CallFinalDiff

SpecDiff == InitDiff /\ [][NextDiff]_vars


(* ---- Claims about the edit-distance engine (under SpecDiff) ---- *)

\* C2: for every limit L >= max(len(start), len(goal)),
\* minimum_mewtations(start, goal, L) <= feline_fixes(start, goal, L).
C2_MewtationsAtMostFixes ==
    (/\ Computed("minimum_mewtations") /\ Computed("feline_fixes")
     /\ limit >= Max2(Len(start), Len(goal)))
    => diffs["minimum_mewtations"] <= diffs["feline_fixes"]

\* both were computed with a large limit, and the full distance is strictly smaller
C2_Witness ==
    /\ Computed("minimum_mewtations") /\ Computed("feline_fixes")
    /\ limit >= Max2(Len(start), Len(goal))
    /\ diffs["minimum_mewtations"] < diffs["feline_fixes"]
    /\ diffs["minimum_mewtations"] > 0

\* C3: for L >= 0 the top-level minimum_mewtations(start, goal, L) is a sound
\* threshold test: the result is <= L exactly when the true edit distance is <= L,
\* and a result <= L is the true edit distance.
C3_ThresholdTest ==
    (Computed("minimum_mewtations") /\ limit >= 0)
    => LET r == diffs["minimum_mewtations"]
           D == EditDistance(start, goal)
       IN  /\ (r <= limit) <=> (D <= limit)
           /\ (r <= limit) => (r = D)

\* the limit was exceeded by two or more, so that pruned branches returned 0
C3_Witness ==
    /\ Computed("minimum_mewtations") /\ limit >= 0
    /\ EditDistance(start, goal) > limit + 1
    /\ diffs["minimum_mewtations"] > limit
    /\ diffs["minimum_mewtations"] < EditDistance(start, goal)

\* C9: for L >= 0, with m the number of mismatching positions within the shorter
\* word, feline_fixes returns m + |len(typed) - len(source)| if m <= L and exactly
\* L + 1 if m > L; for L < 0 it returns 0.
C9_FelineFixesValue ==
    Computed("feline_fixes")
    => LET r == diffs["feline_fixes"]
           m == Cardinality(Mismatches(start, goal))
       IN  IF limit < 0 THEN r = 0
           ELSE IF m <= limit THEN r = m + AbsDiff(Len(start), Len(goal))
           ELSE r = limit + 1

\* feline_fixes ran out of limit: more mismatches than the limit allows
C9_Witness ==
    /\ Computed("feline_fixes") /\ limit >= 0
    /\ Cardinality(Mismatches(start, goal)) > limit + 1
    /\ diffs["feline_fixes"] = limit + 1

\* C10: whatever limit is passed, final_diff returns the true edit distance.
C10_FinalDiffExact ==
    Computed("final_diff") => diffs["final_diff"] = EditDistance(start, goal)

\* final_diff ran with a negative limit passed, on words longer than
\* FINAL_DIFF_LIMIT whose distance exceeds it
C10_Witness ==
    /\ Computed("final_diff") /\ limit < 0
    /\ Len(start) > FINAL_DIFF_LIMIT
    /\ EditDistance(start, goal) > FINAL_DIFF_LIMIT
    /\ diffs["final_diff"] = EditDistance(start, goal)


-----------------------------------------------------------------------------
(* Specification SpecAuto: one call of autocorrect. *)

\* the candidate words a word_list is drawn from
Dictionary == {<<"a", "b">>, <<"b", "a">>, <<"b">>}

\* the limits passed to autocorrect: those of the engine and the doctest's 20
AutoLimits == Limits \cup {20}

InitAuto ==
    /\ pc = "ready"
    /\ typed_word \in Words
    /\ word_list \in SeqsUpTo(Dictionary, MaxList)
    /\ diff_function \in DiffFunctions
    /\ limit \in AutoLimits
    /\ ret = NoValue
    /\ IdleDiff /\ IdleAcc /\ IdleProg /\ IdleMatch

CallAutocorrect ==
    /\ pc = "ready"
    /\ ret' = [kind |-> "word",
               val |-> autocorrect(typed_word, word_list, diff_function, limit)]
    /\ pc' = "returned"
    /\ UNCHANGED <<limit, diffVars, autoVars, accVars, progVars, matchVars>>

NextAuto == CallAutocorrect

SpecAuto == InitAuto /\ [][NextAuto]_vars

\* d(c) of the claim, for the candidate at index i
CandidateDiff(i) == ApplyDiff(diff_function, typed_word, word_list[i], limit)

\* the minimum of d over word_list (word_list not empty)
MinCandidateDiff ==
    CHOOSE m \in {CandidateDiff(i) : i \in 1..Len(word_list)} :
        \A i \in 1..Len(word_list) : m <= CandidateDiff(i)

\* the smallest index whose d is the minimum
FirstBestIndex ==
    CHOOSE i \in 1..Len(word_list) :
        /\ CandidateDiff(i) = MinCandidateDiff
        /\ \A j \in 1..(i - 1) : CandidateDiff(j) # MinCandidateDiff

\* C1: autocorrect returns typed_word if it is in word_list; otherwise typed_word
\* if word_list is empty or the minimum difference exceeds limit; otherwise the
\* first candidate of word_list whose difference is the minimum.
C1_Autocorrect ==
    pc = "returned"
    => ret.val =
         IF \E i \in 1..Len(word_list) : word_list[i] = typed_word THEN typed_word
         ELSE IF word_list = <<>> THEN typed_word
         ELSE IF MinCandidateDiff > limit THEN typed_word
         ELSE word_list[FirstBestIndex]

\* a tie between two different candidates within the limit: the first was returned
C1_Witness ==
    /\ pc = "returned"
    /\ diff_function = "minimum_mewtations"
    /\ Len(word_list) = 2
    /\ word_list[1] # word_list[2]
    /\ typed_word # word_list[1] /\ typed_word # word_list[2]
    /\ CandidateDiff(1) = CandidateDiff(2)
    /\ CandidateDiff(1) <= limit
    /\ ret.val = word_list[1]

-----------------------------------------------------------------------------
(* Specification SpecAcc: one call of accuracy. *)

\* the characters of a text: two letters that differ in case only, and a blank
TextAlphabet == {"a", "A", " "}

InitAcc ==
    /\ pc = "ready"
    /\ typed_text \in SeqsUpTo(TextAlphabet, MaxTyped)
    /\ source_text \in SeqsUpTo(TextAlphabet, MaxSource)
    /\ limit = 0
    /\ ret = NoValue
    /\ IdleDiff /\ IdleAuto /\ IdleProg /\ IdleMatch

CallAccuracy ==
    /\ pc = "ready"
    /\ ret' = [kind |-> "float", val |-> accuracy(typed_text, source_text)]
    /\ pc' = "returned"
    /\ UNCHANGED <<limit, diffVars, autoVars, accVars, progVars, matchVars>>

NextAcc == CallAccuracy

SpecAcc == InitAcc /\ [][NextAcc]_vars

\* C4: with T and S the whitespace-split words of typed and source, accuracy is
\* 100 if both are empty, 0 if exactly one is, and otherwise
\* (1 - (mismatches + extras) / len(T)) * 100, mismatches counted over the common
\* positions and extras = max(0, len(T) - len(S)); the result is within [0, 100],
\* and 100 when typed = source.
C4_Accuracy ==
    pc = "returned"
    => LET T == split(typed_text)
           S == split(source_text)
           mismatches == Cardinality(Mismatches(T, S))
           extras == Max2(0, Len(T) - Len(S))
       IN  /\ (Len(T) = 0 /\ Len(S) = 0) => RatEq(ret.val, Div(100, 1))
           /\ ((Len(T) = 0) # (Len(S) = 0)) => RatEq(ret.val, Div(0, 1))
           /\ (Len(T) > 0 /\ Len(S) > 0)
              => RatEq(ret.val, Div(100 * (Len(T) - (mismatches + extras)), Len(T)))
           /\ ret.val.den > 0
           /\ RatLeq(Div(0, 1), ret.val) /\ RatLeq(ret.val, Div(100, 1))
           /\ (typed_text = source_text) => RatEq(ret.val, Div(100, 1))

\* typed is one word short of source and otherwise right: not penalised
C4_Witness ==
    /\ pc = "returned"
    /\ Len(split(typed_text)) > 0
    /\ Len(split(typed_text)) < Len(split(source_text))
    /\ Mismatches(split(typed_text), split(source_text)) = {}
    /\ RatEq(ret.val, Div(100, 1))

-----------------------------------------------------------------------------
(* Specification SpecProg: one call of report_progress. *)

PromptWords == {"how", "are"}
UserIds == {2, 3}

InitProg ==
    /\ pc = "ready"
    /\ typed_words \in SeqsUpTo(PromptWords, MaxWords)
    /\ prompt \in SeqsUpTo(PromptWords, MaxWords)
    /\ user_id \in UserIds
    /\ uploads = <<>>
    /\ limit = 0
    /\ ret = NoValue
    /\ IdleDiff /\ IdleAuto /\ IdleAcc /\ IdleMatch

\* report_progress: the upload callback appends the report it is handed
CallReportProgress ==
    /\ pc = "ready"
    /\ LET count == compute_correct_words_till_mistype(prompt, typed_words)
       IN  IF count.raised
           THEN /\ pc' = "raised"
                /\ ret' = [kind |-> "IndexError"]
                /\ UNCHANGED uploads
           ELSE IF Len(prompt) = 0
           THEN /\ pc' = "raised"
                /\ ret' = [kind |-> "ZeroDivisionError"]
                /\ UNCHANGED uploads
           ELSE LET progress_ratio == compute_progress_ratio(prompt, typed_words).ratio
                IN  /\ uploads' = Append(uploads, [id |-> user_id,
                                                   progress |-> progress_ratio])
                    /\ ret' = [kind |-> "float", val |-> progress_ratio]
                    /\ pc' = "returned"
    /\ UNCHANGED <<limit, typed_words, prompt, user_id, diffVars, autoVars, accVars,
                   matchVars>>

NextProg == CallReportProgress

SpecProg == InitProg /\ [][NextProg]_vars

\* the number of leading positions at which typed equals prompt
LeadingMatches(typed, prompt_ws) ==
    CHOOSE k \in 0..Min2(Len(typed), Len(prompt_ws)) :
        /\ \A i \in 1..k : typed[i] = prompt_ws[i]
        /\ (k < Min2(Len(typed), Len(prompt_ws)) => typed[k + 1] # prompt_ws[k + 1])

\* C5: for every typed and every non-empty prompt, of any relative lengths,
\* report_progress completes, hands the upload callback exactly one report
\* {id, progress: r} and returns the same r = c / len(prompt), c the number of
\* leading matches; r is within [0, 1].
C5_ReportProgress ==
    (pc # "ready" /\ Len(prompt) > 0)
    => /\ pc = "returned"
       /\ Len(uploads) = 1
       /\ uploads[1].id = user_id
       /\ uploads[1].progress = ret.val
       /\ RatEq(ret.val, Div(LeadingMatches(typed_words, prompt), Len(prompt)))
       /\ RatLeq(Div(0, 1), ret.val) /\ RatLeq(ret.val, Div(1, 1))


-----------------------------------------------------------------------------
(* Specifications SpecFastest and SpecMatch: the caller builds a words list  *)
(* and one time list per player, constructs the Match and calls              *)
(* fastest_words and the accessors on it, any number of times.               *)

\* the durations of SpecFastest: two finite ones and math.inf (a float)
Durations == {Fin(1), Fin(2), Inf}
\* the durations of SpecMatch
FiniteDurations == {Fin(1), Fin(2)}

\* n different words
DistinctWords(n) == [j \in 1..n |-> [i \in 1..j |-> "a"]]
\* n times the same word
SameWords(n) == [j \in 1..n |-> <<"a">>]
\* the word list of n words of a kind
WordList(kind, n) == IF kind = "distinct" THEN DistinctWords(n) ELSE SameWords(n)

\* the lengths of the first player's time list: right, one short, one long
FirstLengths(n) == {k \in {n - 1, n, n + 1} : k >= 0}

InitMatchOver(D, kinds) ==
    /\ pc = "ready"
    /\ \E n \in 0..MaxMatchWords, players \in 0..MaxPlayers :
       \E ws \in {WordList(k, n) : k \in kinds}, first \in FirstLengths(n) :
       \E ts \in [1..players -> UNION {[1..k -> D] : k \in {n, first}}] :
          /\ \A p \in 1..players : Len(ts[p]) = (IF p = 1 THEN first ELSE n)
          /\ heap = <<ws, [p \in 1..players |-> 2 + p]>> \o ts
    /\ in_words = 1
    /\ in_times = 2
    /\ match = NoValue
    /\ call = <<>>
    /\ ret = NoValue
    /\ limit = 0
    /\ IdleDiff /\ IdleAuto /\ IdleAcc /\ IdleProg

Constructed == match.kind = "match"

\* the indices a caller passes for a list of n elements: every index inside it,
\* the first one past its end, the last element counted from the end (-1) and
\* the first negative index before its start
Indices(n) == (0..n) \cup {-1, -(n + 1)}

\* the heap without the lists a previous fastest_words returned
DropResult(h) == SubSeq(h, 1, 2 + Len(h[in_times]))

CallMatch ==
    /\ pc = "ready" /\ ~Constructed
    /\ call' = <<"match">>
    /\ IF MatchAccepts(heap, in_words, in_times)
       THEN /\ match' = MakeMatch(in_words, in_times)
            /\ ret' = [kind |-> "match"]
            /\ pc' = "returned"
       ELSE /\ ret' = [kind |-> "AssertionError"]
            /\ pc' = "raised"
            /\ UNCHANGED match
    /\ UNCHANGED <<heap, in_words, in_times, limit, diffVars, autoVars, accVars, progVars>>

CallFastestWords ==
    /\ Constructed
    /\ call' = <<"fastest_words">>
    /\ LET r == fastest_words(DropResult(heap), match)
       IN  IF r.raised
           THEN /\ heap' = DropResult(r.heap)
                /\ ret' = [kind |-> r.exc]
                /\ pc' = "raised"
           ELSE /\ heap' = r.heap
                /\ ret' = [kind |-> "ref", val |-> r.ref]
                /\ pc' = "returned"
    /\ UNCHANGED <<in_words, in_times, match, limit, diffVars, autoVars, accVars, progVars>>

CallGetAllWords ==
    /\ Constructed
    /\ call' = <<"get_all_words">>
    /\ ret' = [kind |-> "ref", val |-> get_all_words(heap, match)]
    /\ pc' = "returned"
    /\ UNCHANGED <<heap, in_words, in_times, match, limit, diffVars, autoVars, accVars,
                   progVars>>

CallGetAllTimes ==
    /\ Constructed
    /\ call' = <<"get_all_times">>
    /\ ret' = [kind |-> "ref", val |-> get_all_times(heap, match)]
    /\ pc' = "returned"
    /\ UNCHANGED <<heap, in_words, in_times, match, limit, diffVars, autoVars, accVars,
                   progVars>>

CallGetWord ==
    /\ Constructed
    /\ \E word_index \in Indices(Len(heap[in_words])) :
          /\ call' = <<"get_word", word_index>>
          /\ LET r == get_word(heap, match, word_index)
             IN  IF r.raised
                 THEN ret' = [kind |-> r.exc] /\ pc' = "raised"
                 ELSE ret' = [kind |-> "word", val |-> r.val] /\ pc' = "returned"
    /\ UNCHANGED <<heap, in_words, in_times, match, limit, diffVars, autoVars, accVars,
                   progVars>>

CallTime ==
    /\ Constructed
    /\ \E player_num \in Indices(Len(heap[in_times])),
          word_index \in Indices(Len(heap[in_words])) :
          /\ call' = <<"time", player_num, word_index>>
          /\ LET r == time(heap, match, player_num, word_index)
             IN  IF r.raised
                 THEN ret' = [kind |-> r.exc] /\ pc' = "raised"
                 ELSE ret' = [kind |-> "number", val |-> r.val] /\ pc' = "returned"
    /\ UNCHANGED <<heap, in_words, in_times, match, limit, diffVars, autoVars, accVars,
                   progVars>>

InitFastest == InitMatchOver(Durations, {"distinct", "same"})

NextFastest == CallMatch \/ CallFastestWords

SpecFastest == InitFastest /\ [][NextFastest]_vars

InitMatch == InitMatchOver(FiniteDurations, {"distinct"})

NextMatch ==
    \/ CallMatch
    \/ CallFastestWords
    \/ CallGetAllWords
    \/ CallGetAllTimes
    \/ CallGetWord
    \/ CallTime

SpecMatch == InitMatch /\ [][NextMatch]_vars


(* ---- Claims about the Match record ---- *)

MatchWords == heap[match.words]
PlayerCount == Len(heap[match.times])
\* the time of player p (1-based) for word j (1-based)
TimeOf(p, j) == heap[heap[match.times][p]][j]

\* the lowest-numbered player whose time for word j is the minimum
FastestPlayer(j) ==
    CHOOSE p \in 1..PlayerCount :
        /\ \A q \in 1..PlayerCount : ~NumLess(TimeOf(q, j), TimeOf(p, j))
        /\ \A q \in 1..(p - 1) : NumLess(TimeOf(p, j), TimeOf(q, j))

\* the words player p was fastest at, in prompt order
ExpectedFastest(p) ==
    LET won == {j \in 1..Len(MatchWords) : FastestPlayer(j) = p}
        \* the k-th smallest index of won
        Nth(k) == CHOOSE j \in won : Cardinality({i \in won : i < j}) = k - 1
    IN  [k \in 1..Cardinality(won) |-> MatchWords[Nth(k)]]

FastestWordsCalled == Constructed /\ Len(call) > 0 /\ call[1] = "fastest_words"

\* C6: for every accepted Match, fastest_words returns one list per player, and
\* player p's list holds, in prompt order, exactly the words for which p is the
\* lowest-numbered player with the minimum time.  Stated here for a Match with at
\* least one player: with no player every word has nobody to go to.
C6_FastestWords ==
    (FastestWordsCalled /\ PlayerCount >= 1)
    => /\ pc = "returned"
       /\ Len(heap[ret.val]) = PlayerCount
       /\ \A p \in 1..PlayerCount : heap[heap[ret.val][p]] = ExpectedFastest(p)

\* the contents of the lists the caller passed to match(...)
InputContents ==
    <<heap[in_words], heap[in_times],
      [p \in 1..Len(heap[in_times]) |-> heap[heap[in_times][p]]]>>

\* C7: fastest_words and the accessors get_word, time, get_all_words and
\* get_all_times leave the Match and the caller's words and time lists unchanged.
C7_InputsUnchanged ==
    [][Constructed => (match' = match /\ InputContents' = InputContents)]_vars

\* fastest_words returned a word for the second of two players, and then an
\* accessor was called
C7_Witness ==
    /\ Constructed /\ pc = "returned"
    /\ Len(call) > 0 /\ call[1] = "time"
    /\ PlayerCount = 2
    /\ Len(heap) = 2 + PlayerCount + PlayerCount + 1
    /\ heap[heap[Len(heap)][2]] # <<>>

\* C8: get_word and time return a value only for a word_index within
\* 0..len(words)-1 and a player_num within 0..players-1, and fail for every other
\* index, negative ones included.
C8_IndexRange ==
    (Constructed /\ Len(call) > 0)
    => /\ call[1] = "get_word"
          => ((pc = "returned") <=> (call[2] \in 0..(Len(MatchWords) - 1)))
       /\ call[1] = "time"
          => ((pc = "returned") <=> (/\ call[2] \in 0..(PlayerCount - 1)
                                     /\ call[3] \in 0..(Len(MatchWords) - 1)))

=============================================================================
